---- MODULE Spec2Model ----
(***************************************************************************)
(* Training orchestrator of the Plasmodium classification pipeline:        *)
(* train_model / train_classifier_only (src/src/training.py) together with *)
(* the weight regularizers they call (src/src/regularizers.py).            *)
(*                                                                         *)
(* Abstractions.  Floating point values are integers; NaN is the value of  *)
(* the definition NaN, and arithmetic on it yields NaN (FAdd, FMul, FDiv). *)
(* The classifier-head weights are one positive integer (the norm of the   *)
(* head's neuron); the optimizer step replaces it by a value the           *)
(* gradient decides (an input of the batch).  The validation metric        *)
(* (macro recall) is an input of the validation end in MetricVals; the    *)
(* other metrics are not tracked and recorded as 0.  Every loader yields   *)
(* NumBatches batches, each of which may be empty.                         *)
(***************************************************************************)
EXTENDS Integers, Sequences, FiniteSets, TLC

\* ---------------------------------------------------------------- bounds
MaxEpochs  == 2          \* num_epochs ranges over 0..MaxEpochs
NumBatches == 2          \* batches a loader yields per phase

\* ------------------------------------------------------- program constants
max_nan_inf_tolerance == 5
NaN == -2

\* -------------------------------------------------------- input domains
Weights      == {1, 2}           \* values of the classifier-head weights
LossVals     == {NaN, 1}         \* loss of a batch: non-finite or finite
NumelVals    == {0, 1}           \* samples in a batch (0: an empty batch)
MetricVals   == {0, 1, 2}        \* validation macro recall, in thirds
PatienceVals == {0, 1, 5, 6}
FreqVals     == {1, 2}
StageVals    == {0, 1, 2}        \* first_stage_epochs
CriterionB   == {"none", "B"}    \* criterion_b: not given, or a second loss
NoFile       == 0                \* no file at save_path

Columns == {"epoch", "train_loss", "train_acc_macro", "train_acc_weighted",
            "val_loss", "val_acc_macro", "val_acc_weighted",
            "val_precision_macro", "val_recall_macro", "val_f1_macro",
            "val_precision_weighted", "val_recall_weighted", "val_f1_weighted",
            "lr"}
ValColumns == {"val_loss", "val_acc_macro", "val_acc_weighted",
               "val_precision_macro", "val_recall_macro", "val_f1_macro",
               "val_precision_weighted", "val_recall_weighted", "val_f1_weighted"}
TrainColumns == {"train_loss", "train_acc_macro", "train_acc_weighted"}

VARIABLES
    cfg,                    \* the arguments of the call
    pc, error,              \* position in the function, exception raised
    epoch, phase, batch_idx,
    loss,                   \* loss of the last batch (0: none computed)
    active_criterion,       \* criterion of the last loss ("none": no loss yet)
    early_stop,             \* the early-stopping break was taken
    running_loss, num_processed_samples, batch_count, all_preds,
    nan_inf_counter,
    weights, perLayerThresh, mixup_enabled,
    calls, tauCalls,        \* calls of the last batch, tau calls of the epoch
    best_val_metric, epochs_no_improve,
    history, valEndWts,
    ckpt, log_written,
    \* the data pipeline (src/src/data_loader.py)
    dpc,                    \* position in the constructor / sampler set-up
    args,                   \* the arguments of the constructor or builder
    dataset,                \* the dataset object
    heap,                   \* the configuration mappings, by object identity
    sampler,                \* what create_weighted_random_sampler returned
    \* the MaxNorm regularizer on its own (src/src/regularizers.py)
    layer,                  \* the weight matrix of the classifier head
    reg,                    \* the MaxNorm_via_PGD object
    rcalls,                 \* the calls made so far
    \* the collaborators of the training run
    opts,                   \* scheduler and train loader handed to the call
    epoch_train_loader,     \* the loader of the current epoch's train phase
    sched_steps             \* the calls of scheduler.step, in order

vars == <<cfg, pc, error, epoch, phase, batch_idx, loss, active_criterion,
          early_stop,
          running_loss, num_processed_samples, batch_count, all_preds,
          nan_inf_counter, weights, perLayerThresh, mixup_enabled,
          calls, tauCalls, best_val_metric, epochs_no_improve,
          history, valEndWts, ckpt, log_written,
          dpc, args, dataset, heap, sampler, layer, reg, rcalls,
          opts, epoch_train_loader, sched_steps>>

\* the variables of the training run
tvars == <<cfg, pc, error, epoch, phase, batch_idx, loss, active_criterion,
           early_stop, running_loss, num_processed_samples, batch_count,
           all_preds, nan_inf_counter, weights, perLayerThresh,
           mixup_enabled, calls, tauCalls, best_val_metric,
           epochs_no_improve, history, valEndWts, ckpt, log_written>>

dvars == <<dpc, args, dataset, heap, sampler>>

rvars == <<layer, reg, rcalls>>

lvars == <<opts, epoch_train_loader, sched_steps>>

\* the loaders are arguments of the training call: the objects of the data
\* pipeline are not touched while it runs
NoDataset == [kind |-> "none"]
NoSampler == [state |-> "unset"]
NoHeap == [objs |-> <<>>, main |-> 0, phase |-> 0, effective |-> 0]
DataIdle ==
    /\ dpc = "idle" /\ args = [kind |-> "none"] /\ dataset = NoDataset
    /\ heap = NoHeap /\ sampler = NoSampler

\* the regularizer of the training run is the abstract one of TrainStep;
\* the object of the weight-matrix model is not in use
NoReg == [thresh |-> 0, tau |-> 0, perLayerThresh |-> <<>>]
RegIdle == layer = <<>> /\ reg = NoReg /\ rcalls = <<>>

\* train_ratio in quarters: RatioDen quarters are the whole training set
RatioDen == 4

NoLoader == [loader |-> "none", sampler |-> "none", indices |-> <<>>]

\* the call as the other parts of the model make it: no scheduler, the
\* default train_ratio = 1.0, a shuffling train loader over one sample
DefaultOpts ==
    [scheduler |-> "none", train_ratio |-> RatioDen,
     num_total_train_samples |-> 1, train_sampler |-> "shuffle"]

\* the state of the collaborators at the call, for the options in O
InitOpts(O) ==
    opts \in O /\ epoch_train_loader = NoLoader /\ sched_steps = <<>>

\* ------------------------------------------------------------ float model
IsFiniteAlways(x) == TRUE
IsFinite(x) == x # NaN

FAdd(a, b) == IF a = NaN \/ b = NaN THEN NaN ELSE a + b
FMul(a, b) == IF a = NaN \/ b = NaN THEN NaN ELSE a * b
FDiv(a, b) == IF a = NaN \/ b = NaN THEN NaN ELSE a \div b

SetMax(S) == CHOOSE x \in S : \A y \in S : y <= x

\* --------------------------------------------------------- history table
EmptyHistory == [k \in Columns |-> <<>>]

HAppend(h, cols, v) == [k \in Columns |-> IF k \in cols THEN Append(h[k], v) ELSE h[k]]

\* the value the padding loop writes into a short column k
padding_val(k) == IF k \in ValColumns \cup TrainColumns THEN NaN ELSE -1

PadHistoryNone(h) == h
PadHistory(h) ==
    LET max_len == SetMax({Len(h[k]) : k \in Columns})
    IN  [k \in Columns |->
            h[k] \o [i \in 1..(max_len - Len(h[k])) |-> padding_val(k)]]

\* ------------------------------------------------------------ regularizers
\* a regularizer state: the head's weights, the cached threshold list
\* (0 = the empty list) and the calls made so far in this batch
OptimizerStep(s, g) == [s EXCEPT !.w = g, !.calls = Append(@, "step")]

setPerLayerThresh(s) == [s EXCEPT !.thr = s.w]

PGD(s) ==
    LET s1 == IF s.thr = 0 THEN setPerLayerThresh(s) ELSE s
    IN  [s1 EXCEPT !.w = IF s1.w > s1.thr THEN s1.thr ELSE s1.w,
                   !.calls = Append(@, "PGD")]

apply_on(s) == [s EXCEPT !.w = 1, !.calls = Append(@, "tau")]

TauDue(ep, n) == (ep + 1) % n = 0

\* backward pass, optimizer step and the regularizers of one training batch
TrainStepRegFirst(c, s, g, ep) ==
    LET s1 == IF c.max_norm_regularizer THEN PGD(s) ELSE s
        s2 == IF c.tau_normalizer /\ TauDue(ep, c.tau_norm_frequency)
              THEN apply_on(s1) ELSE s1
    IN  OptimizerStep(s2, g)
TrainStep(c, s, g, ep) ==
    LET s1 == OptimizerStep(s, g)
        s2 == IF c.max_norm_regularizer THEN PGD(s1) ELSE s1
        s3 == IF c.tau_normalizer /\ TauDue(ep, c.tau_norm_frequency)
              THEN apply_on(s2) ELSE s2
    IN  s3

\* ------------------------------------------------------ staged criterion
\* src/loss.py is not part of the sources at hand; the selector is the one
\* the specification describes
get_active_criterion(ep, criterion_a, criterion_b, first_stage_epochs) ==
    IF ep < first_stage_epochs THEN criterion_a
    ELSE IF criterion_b # "none" THEN criterion_b ELSE criterion_a

\* the criterion the head of the epoch names in the log
current_criterion(c, ep) ==
    IF c.criterion_b # "none" /\ c.first_stage_epochs > 0
    THEN get_active_criterion(ep, "A", c.criterion_b, c.first_stage_epochs)
    ELSE "A"

\* the criterion that computes the loss of a batch of epoch ep
LossCriterionAsLogged(c, ep) == current_criterion(c, ep)
LossCriterion(c, ep) ==
    get_active_criterion(ep, "A", c.criterion_b, c.first_stage_epochs)

\* ------------------------------------------------------------- decisions
TrainLoaderMissingNever(c) == FALSE
TrainLoaderMissing(c) == ~c.hasTrain

\* where a batch with a non-finite loss leaves the run: the next batch
NanBatchAborts(counter) ==
    IF counter > max_nan_inf_tolerance THEN "raised" ELSE "batches"
NanBatchOutcome(counter) == "batches"

ImprovedOrEqual(m, best) == m >= best
Improved(m, best) == m > best

ShouldStop(eni, patience) == eni >= patience

DisableMixupAt(eni, patience) == eni = patience - 5

\* the outcome of reloading the best weights: [w, raised]
LoadBestStrict(w, file) ==
    IF file = NoFile THEN [w |-> w, raised |-> TRUE]
    ELSE [w |-> file, raised |-> FALSE]
LoadBest(w, file) ==
    IF file = NoFile THEN [w |-> w, raised |-> FALSE]
    ELSE [w |-> file, raised |-> FALSE]

\* train_ratio as the run uses it: a value outside (0, 1] becomes 1.0
EffectiveRatio(r) == IF 0 < r /\ r <= RatioDen THEN r ELSE RatioDen

\* a subset one sample short: the floor of N * train_ratio
num_epoch_samples_floor(n, r) == (n * r) \div RatioDen

\* math.ceil(num_total_train_samples * train_ratio)
num_epoch_samples(n, r) == (n * r + RatioDen - 1) \div RatioDen

\* torch.randperm(n)[:k].tolist(): the first k entries of a permutation
\* of 0..n-1
RandpermPrefixes(n, k) ==
    { q \in [1..k -> 0..(n - 1)] :
        \A i, j \in 1..k : i # j => q[i] # q[j] }

\* the train loader of one epoch: a new loader over a drawn subset with a
\* SubsetRandomSampler, or the caller's loader itself
EpochLoaders(o) ==
    IF EffectiveRatio(o.train_ratio) < RatioDen
    THEN { [loader |-> "epoch", sampler |-> "SubsetRandomSampler",
            indices |-> q] :
           q \in RandpermPrefixes(o.num_total_train_samples,
                   num_epoch_samples(o.num_total_train_samples,
                                     EffectiveRatio(o.train_ratio))) }
    ELSE { [loader |-> "original", sampler |-> o.train_sampler,
            indices |-> <<>>] }

\* the scheduler step at the end of a validation phase with valid batches:
\* a plateau scheduler gets the metric, any other is stepped without one
SchedulerStep(o, steps, e, m) ==
    IF o.scheduler = "ReduceLROnPlateau"
    THEN Append(steps, [epoch |-> e, metric |-> m])
    ELSE IF o.scheduler # "none"
    THEN Append(steps, [epoch |-> e, metric |-> -1])
    ELSE steps

\* ------------------------------------------------------------------ Init
Configs ==
    { c \in [fn : {"train_model", "train_classifier_only"},
             hasTrain : BOOLEAN, hasVal : BOOLEAN,
             num_epochs : 0..MaxEpochs, patience : PatienceVals,
             init_best_val_metric : 0..1,
             mixup : {"none", "on", "off"},
             max_norm_regularizer : BOOLEAN,
             tau_normalizer : BOOLEAN, tau_norm_frequency : FreqVals,
             criterion_b : CriterionB, first_stage_epochs : StageVals] :
        /\ c.fn = "train_model" => c.init_best_val_metric = 0
        /\ ~c.tau_normalizer => c.tau_norm_frequency = 1 }

\* the state at the call, for the arguments in C and the files in F
InitOf(C, F) ==
    /\ cfg \in C
    /\ pc = "init" /\ error = "none"
    /\ epoch = -1 /\ phase = "none" /\ batch_idx = 0
    /\ loss = 0 /\ active_criterion = "none" /\ early_stop = FALSE
    /\ running_loss = 0 /\ num_processed_samples = 0 /\ batch_count = 0
    /\ all_preds = 0
    /\ nan_inf_counter = 0
    /\ weights = 1 /\ perLayerThresh = 0
    /\ mixup_enabled = (cfg.mixup = "on")
    /\ calls = <<>> /\ tauCalls = 0
    /\ best_val_metric = 0 /\ epochs_no_improve = 0
    /\ history = EmptyHistory /\ valEndWts = <<>>
    /\ ckpt \in F
    /\ log_written = FALSE

\* batch loop and regularizers: default patience, every regularizer set-up
ConfigsBatch ==
    { c \in Configs : /\ c.fn = "train_model" /\ c.patience = 5
                      /\ c.mixup \in {"none", "on"}
                      /\ c.criterion_b = "none" /\ c.first_stage_epochs = 0 }
Init == InitOf(ConfigsBatch, {NoFile}) /\ DataIdle /\ RegIdle
    /\ InitOpts({DefaultOpts})

\* early stopping and augmenter gating: every patience, no regularizer
ConfigsStop ==
    { c \in Configs : /\ c.fn = "train_model"
                      /\ ~c.max_norm_regularizer /\ ~c.tau_normalizer
                      /\ c.criterion_b = "none" /\ c.first_stage_epochs = 0 }
InitStop == InitOf(ConfigsStop, {NoFile}) /\ DataIdle /\ RegIdle
    /\ InitOpts({DefaultOpts})

\* checkpoint, history and failure paths: both entry points, with and
\* without a file left at save_path by an earlier run
ConfigsCkpt ==
    { c \in Configs : /\ c.patience \in {1, 5} /\ c.mixup = "none"
                      /\ ~c.max_norm_regularizer /\ ~c.tau_normalizer
                      /\ c.criterion_b = "none" /\ c.first_stage_epochs = 0 }
InitCkpt == InitOf(ConfigsCkpt, {NoFile, 2}) /\ DataIdle /\ RegIdle
    /\ InitOpts({DefaultOpts})

\* staged criterion: both entry points, every criterion_b and
\* first_stage_epochs, default patience, no regularizer
ConfigsCrit ==
    { c \in Configs : /\ c.hasTrain /\ c.patience = 5 /\ c.mixup = "none"
                      /\ c.init_best_val_metric = 0
                      /\ ~c.max_norm_regularizer /\ ~c.tau_normalizer }
InitCrit == InitOf(ConfigsCrit, {NoFile}) /\ DataIdle /\ RegIdle
    /\ InitOpts({DefaultOpts})

\* --------------------------------------------------------------- actions
\* entry of train_model / train_classifier_only up to the epoch loop
Call ==
    /\ pc = "init"
    /\ UNCHANGED <<dvars, rvars, lvars>>
    /\ IF TrainLoaderMissing(cfg)
       THEN /\ pc' = "raised" /\ error' = "ValueError"
            /\ UNCHANGED best_val_metric
       ELSE /\ pc' = IF cfg.num_epochs > 0 THEN "epoch_loop" ELSE "finish"
            /\ error' = error
            /\ best_val_metric' = IF cfg.fn = "train_model" THEN 0
                                  ELSE cfg.init_best_val_metric
    /\ UNCHANGED <<cfg, epoch, phase, batch_idx, loss, active_criterion, early_stop,
                   running_loss,
                   num_processed_samples, batch_count, all_preds,
                   nan_inf_counter, weights, perLayerThresh, mixup_enabled,
                   calls, tauCalls, epochs_no_improve, history, valEndWts,
                   ckpt, log_written>>

\* head of one iteration of the epoch loop and set-up of its train phase
EpochStart ==
    /\ pc = "epoch_loop"
    /\ UNCHANGED <<dvars, rvars, opts, sched_steps>>
    /\ epoch' = epoch + 1
    /\ epoch_train_loader' \in EpochLoaders(opts)
    /\ history' = HAppend(HAppend(history, {"epoch"}, epoch + 2), {"lr"}, 0)
    /\ phase' = "train" /\ batch_idx' = 0
    /\ running_loss' = 0 /\ num_processed_samples' = 0 /\ batch_count' = 0
    /\ all_preds' = 0
    /\ calls' = <<>> /\ tauCalls' = 0 /\ loss' = 0
    /\ pc' = "batches"
    /\ UNCHANGED <<cfg, error, active_criterion, early_stop, nan_inf_counter,
                   weights, perLayerThresh,
                   mixup_enabled, best_val_metric, epochs_no_improve,
                   valEndWts, ckpt, log_written>>

\* one iteration of the batch loop, in either phase
Batch ==
    /\ pc = "batches" /\ batch_idx < NumBatches
    /\ UNCHANGED <<dvars, rvars, lvars>>
    /\ \E numel \in NumelVals, l \in LossVals, g \in Weights :
        LET mix == IF phase = "train" /\ cfg.mixup # "none" /\ mixup_enabled
                   THEN <<"mixup">> ELSE <<>>
            s0  == [w |-> weights, thr |-> perLayerThresh, calls |-> mix]
            s   == IF phase = "train" THEN TrainStep(cfg, s0, g, epoch) ELSE s0
        IN
        /\ batch_idx' = batch_idx + 1
        /\ IF numel = 0
           THEN \* empty batch: skipped before anything is touched
                /\ calls' = <<>> /\ pc' = pc /\ loss' = 0
                /\ UNCHANGED active_criterion
                /\ UNCHANGED <<running_loss, num_processed_samples,
                               batch_count, all_preds, nan_inf_counter,
                               weights, perLayerThresh, tauCalls>>
           ELSE IF ~IsFinite(l)
           THEN \* NaN/Inf guard
                /\ loss' = l
                /\ active_criterion' = LossCriterion(cfg, epoch)
                /\ nan_inf_counter' = nan_inf_counter + 1
                /\ calls' = mix
                /\ pc' = NanBatchOutcome(nan_inf_counter + 1)
                /\ UNCHANGED <<running_loss, num_processed_samples,
                               batch_count, all_preds, weights,
                               perLayerThresh, tauCalls>>
           ELSE /\ loss' = l
                /\ active_criterion' = LossCriterion(cfg, epoch)
                /\ all_preds' = all_preds + numel
                /\ weights' = s.w /\ perLayerThresh' = s.thr
                /\ calls' = s.calls
                /\ tauCalls' = tauCalls +
                       Cardinality({i \in 1..Len(s.calls) : s.calls[i] = "tau"})
                /\ running_loss' = FAdd(running_loss, FMul(l, numel))
                /\ num_processed_samples' = num_processed_samples + numel
                /\ batch_count' = batch_count + 1
                /\ pc' = pc
                /\ UNCHANGED nan_inf_counter
    /\ UNCHANGED <<cfg, error, epoch, phase, early_stop, mixup_enabled,
                   best_val_metric, epochs_no_improve, history, valEndWts,
                   ckpt, log_written>>

\* end of the train phase, then set-up (or skip) of the validation phase
TrainPhaseEnd ==
    /\ pc = "batches" /\ phase = "train" /\ batch_idx = NumBatches
    /\ UNCHANGED <<dvars, rvars, lvars>>
    /\ history' =
         IF batch_count = 0 \/ num_processed_samples = 0
         THEN HAppend(history, TrainColumns, NaN)
         ELSE HAppend(HAppend(history, {"train_loss"},
                              FDiv(running_loss, num_processed_samples)),
                      {"train_acc_macro", "train_acc_weighted"}, 0)
    /\ IF cfg.hasVal
       THEN /\ phase' = "val" /\ pc' = "batches"
       ELSE /\ phase' = "none" /\ pc' = "epoch_end"
    /\ batch_idx' = 0 /\ calls' = <<>> /\ loss' = 0
    /\ running_loss' = 0 /\ num_processed_samples' = 0 /\ batch_count' = 0
    /\ all_preds' = 0
    /\ UNCHANGED <<cfg, error, epoch, active_criterion, early_stop,
                   nan_inf_counter, weights,
                   perLayerThresh, mixup_enabled, tauCalls, best_val_metric,
                   epochs_no_improve, valEndWts, ckpt, log_written>>

\* end of the validation phase: metrics, improvement check, checkpoint
ValPhaseEnd ==
    /\ pc = "batches" /\ phase = "val" /\ batch_idx = NumBatches
    /\ UNCHANGED <<dvars, rvars, opts, epoch_train_loader>>
    /\ \E m \in MetricVals :
        IF batch_count = 0 \/ num_processed_samples = 0
        THEN /\ history' = HAppend(history, ValColumns, NaN)
             /\ UNCHANGED <<best_val_metric, epochs_no_improve, ckpt,
                            mixup_enabled, sched_steps>>
        ELSE /\ history' =
                  HAppend(HAppend(HAppend(history, {"val_loss"},
                              FDiv(running_loss, num_processed_samples)),
                          {"val_acc_macro", "val_recall_macro"}, m),
                      ValColumns \ {"val_loss", "val_acc_macro",
                                    "val_recall_macro"}, 0)
             /\ sched_steps' = SchedulerStep(opts, sched_steps, epoch, m)
             /\ IF Improved(m, best_val_metric)
                THEN /\ best_val_metric' = m
                     /\ ckpt' = weights
                     /\ epochs_no_improve' = 0
                     /\ mixup_enabled' = (cfg.mixup # "none")
                ELSE /\ epochs_no_improve' = epochs_no_improve + 1
                     /\ mixup_enabled' =
                          IF DisableMixupAt(epochs_no_improve + 1, cfg.patience)
                             /\ cfg.mixup # "none"
                          THEN FALSE ELSE mixup_enabled
                     /\ UNCHANGED <<best_val_metric, ckpt>>
    /\ valEndWts' = Append(valEndWts, weights)
    /\ pc' = "epoch_end" /\ phase' = "none"
    /\ calls' = <<>> /\ loss' = 0
    /\ UNCHANGED <<cfg, error, epoch, active_criterion, early_stop, batch_idx,
                   running_loss,
                   num_processed_samples, batch_count, all_preds,
                   nan_inf_counter, weights, perLayerThresh, tauCalls,
                   log_written>>

\* end of the epoch: early stopping check, or next iteration
EpochEnd ==
    /\ pc = "epoch_end"
    /\ UNCHANGED <<dvars, rvars, lvars>>
    /\ early_stop' = ShouldStop(epochs_no_improve, cfg.patience)
    /\ pc' = IF early_stop' THEN "finish"
             ELSE IF epoch + 1 < cfg.num_epochs THEN "epoch_loop"
             ELSE "finish"
    /\ UNCHANGED <<cfg, error, epoch, phase, batch_idx, loss, active_criterion,
                   running_loss,
                   num_processed_samples, batch_count, all_preds,
                   nan_inf_counter, weights, perLayerThresh, mixup_enabled,
                   calls, tauCalls, best_val_metric, epochs_no_improve,
                   history, valEndWts, ckpt, log_written>>

\* after the loop: summary line, padding of the history, training log
Finish ==
    /\ pc = "finish"
    /\ UNCHANGED <<dvars, rvars, lvars>>
    /\ IF epoch = -1
       THEN \* the summary reads the loop variable, which was never bound
            /\ pc' = "raised" /\ error' = "NameError"
            /\ UNCHANGED <<history, log_written>>
       ELSE /\ history' = PadHistory(history)
            /\ log_written' = TRUE
            /\ pc' = "load" /\ error' = error
    /\ UNCHANGED <<cfg, epoch, phase, batch_idx, loss, active_criterion, early_stop,
                   running_loss,
                   num_processed_samples, batch_count, all_preds,
                   nan_inf_counter, weights, perLayerThresh, mixup_enabled,
                   calls, tauCalls, best_val_metric, epochs_no_improve,
                   valEndWts, ckpt>>

\* reload of the best weights from save_path, then return
Return ==
    /\ pc = "load"
    /\ UNCHANGED <<dvars, rvars, lvars>>
    /\ LET r == LoadBest(weights, ckpt)
       IN  /\ weights' = r.w
           /\ pc' = IF r.raised THEN "raised" ELSE "done"
           /\ error' = IF r.raised THEN "FileNotFoundError" ELSE error
    /\ UNCHANGED <<cfg, epoch, phase, batch_idx, loss, active_criterion, early_stop,
                   running_loss,
                   num_processed_samples, batch_count, all_preds,
                   nan_inf_counter, perLayerThresh, mixup_enabled,
                   calls, tauCalls, best_val_metric, epochs_no_improve,
                   history, valEndWts, ckpt, log_written>>

Next ==
    \/ Call
    \/ EpochStart
    \/ Batch
    \/ TrainPhaseEnd
    \/ ValPhaseEnd
    \/ EpochEnd
    \/ Finish
    \/ Return

Spec == Init /\ [][Next]_vars
SpecStop == InitStop /\ [][Next]_vars
SpecCkpt == InitCkpt /\ [][Next]_vars
SpecCrit == InitCrit /\ [][Next]_vars

TypeOK ==
    /\ cfg \in Configs
    /\ pc \in {"init", "epoch_loop", "batches", "epoch_end", "finish",
               "load", "done", "raised"}
    /\ epoch \in -1..(MaxEpochs - 1)
    /\ weights \in Weights
    /\ ckpt \in {NoFile} \cup Weights

\* ================================================================ claims
RegCalls == SelectSeq(calls, LAMBDA c : c \in {"step", "PGD", "tau"})

\* a step of the batch loop that processed a batch with a non-finite loss
NanBatchStep ==
    pc = "batches" /\ batch_idx' = batch_idx + 1 /\ loss' = NaN

\* C1: a batch whose loss is non-finite leaves running_loss,
\* num_processed_samples, batch_count, the collected predictions and the
\* weights (and the regularizer's threshold) as they were, makes no
\* optimizer step and no regularizer call, and the batch loop of the same
\* phase goes on with the next batch.
C1_NanBatchIsSkipped ==
    [][NanBatchStep =>
          /\ running_loss' = running_loss
          /\ num_processed_samples' = num_processed_samples
          /\ batch_count' = batch_count
          /\ all_preds' = all_preds
          /\ weights' = weights /\ perLayerThresh' = perLayerThresh
          /\ \A i \in 1..Len(calls') : calls'[i] \notin {"step", "PGD", "tau"}
          /\ pc' = "batches" /\ phase' = phase /\ epoch' = epoch]_vars

\* a finite batch was processed in the train phase right after a NaN batch
C1_Witness ==
    /\ pc = "batches" /\ phase = "train" /\ epoch = 0
    /\ batch_idx = 2 /\ nan_inf_counter = 1
    /\ loss = 1 /\ batch_count = 1 /\ "step" \in {calls[i] : i \in 1..Len(calls)}

\* C8: the non-finite-loss counter only grows, a non-finite batch never
\* raises or stops the run however large the counter is, and the only
\* exceptions of a run are the missing train loader and the unbound loop
\* variable of a run with no epoch.
C8_ToleranceIsInformational ==
    [][/\ nan_inf_counter' >= nan_inf_counter
       /\ NanBatchStep => (/\ nan_inf_counter' = nan_inf_counter + 1
                           /\ pc' = "batches" /\ error' = "none"
                           /\ early_stop' = early_stop)
       /\ pc' = "raised" => (~cfg.hasTrain \/ cfg.num_epochs = 0)]_vars

\* a run that met more non-finite batches than the tolerance has returned
C8_Witness ==
    pc = "done" /\ nan_inf_counter > max_nan_inf_tolerance

\* the regularizer calls the configuration makes due in epoch ep
DueCalls(ep) ==
    <<"step">>
    \o (IF cfg.max_norm_regularizer THEN <<"PGD">> ELSE <<>>)
    \o (IF cfg.tau_normalizer /\ (ep + 1) % cfg.tau_norm_frequency = 0
        THEN <<"tau">> ELSE <<>>)

\* C9: the weight mutations of a batch are, in this order, the optimizer
\* step, the MaxNorm projection if configured and the Tau-Normalizer if
\* due, exactly for a train batch with a finite loss; a validation batch,
\* an empty batch and a batch with a non-finite loss make none.
C9_RegularizersAfterStep ==
    RegCalls = IF pc = "batches" /\ phase = "train" /\ batch_idx > 0
                  /\ loss \notin {0, NaN}
               THEN DueCalls(epoch) ELSE <<>>

\* a train batch made all three mutations
C9_Witness ==
    pc = "batches" /\ phase = "train" /\ RegCalls = <<"step", "PGD", "tau">>

\* C10 (as claimed): in an epoch the Tau-Normalizer is applied at most once,
\* and only if (epoch+1) is a multiple of tau_norm_frequency.
C10_TauOncePerDueEpoch ==
    tauCalls <= IF cfg.tau_normalizer
                   /\ (epoch + 1) % cfg.tau_norm_frequency = 0
                THEN 1 ELSE 0

\* ------------------------------------------ early stopping and augmenter
\* the value best_val_metric starts from
InitBest ==
    IF cfg.fn = "train_model" THEN 0 ELSE cfg.init_best_val_metric

ValCol == history["val_acc_macro"]

\* the validation metrics recorded before row i, and the starting value
Before(i) == {InitBest} \cup {ValCol[j] : j \in {k \in 1..(i - 1) : ValCol[k] # NaN}}

\* row i of the history records a validation metric above all before it
RowImproved(i) ==
    i \in 1..Len(ValCol) /\ ValCol[i] # NaN /\ ValCol[i] > SetMax(Before(i))

\* C2 (as claimed): the epoch loop is cut short by the break only with
\* epochs_no_improve equal to patience, and never at the end of an epoch
\* whose validation metric improved.
C2_StopOnlyAtPatience ==
    (early_stop /\ epoch + 1 < cfg.num_epochs) =>
        /\ epochs_no_improve = cfg.patience
        /\ ~RowImproved(epoch + 1)

\* C3 (as claimed): in a streak of non-improving validation epochs that
\* runs until patience is reached, the augmenter was disabled on the way
\* (at patience - 5), so the run stops with the flag false.
C3_AugmenterOffAtStop ==
    (/\ early_stop /\ cfg.mixup # "none"
     /\ epochs_no_improve >= 1 /\ epochs_no_improve = cfg.patience)
        => ~mixup_enabled

\* --------------------------------------------- checkpoint and history
ValidRows == {i \in 1..Len(ValCol) : ValCol[i] # NaN}

\* some validation epoch of the run improved on the starting value
SomeRowImproved == \E i \in ValidRows : ValCol[i] > InitBest

\* the first row that reached the maximum metric of the run
FirstMaxRow ==
    LET top == SetMax({ValCol[i] : i \in ValidRows})
    IN  CHOOSE i \in ValidRows :
            ValCol[i] = top /\ \A j \in ValidRows : ValCol[j] = top => i <= j

\* C4: once a validation epoch has improved the metric, the file at
\* save_path holds the weights of the validation end of the first epoch
\* that reached the maximum metric recorded so far (the last improving
\* epoch), whatever non-improving epochs followed, and the model the run
\* returns carries those weights.
C4_CheckpointIsBestEpoch ==
    SomeRowImproved =>
        /\ ckpt = valEndWts[FirstMaxRow]
        /\ pc = "done" => weights = valEndWts[FirstMaxRow]

\* the run returned the weights of epoch 1 although epoch 2, which did not
\* improve, ended with other weights
C4_Witness ==
    /\ pc = "done" /\ SomeRowImproved
    /\ Len(valEndWts) = 2 /\ FirstMaxRow = 1
    /\ valEndWts[2] # valEndWts[1] /\ weights = valEndWts[1]

\* C5: after the history is finalised every column has one entry per
\* executed epoch, the epoch column counts 1..E, and a validation column
\* that received no value (no 'val' loader) holds NaN in every row.
C5_HistoryColumnsComplete ==
    pc \in {"load", "done"} =>
        /\ \A k \in Columns : Len(history[k]) = epoch + 1
        /\ history["epoch"] = [i \in 1..(epoch + 1) |-> i]
        /\ ~cfg.hasVal =>
              \A k \in ValColumns : \A i \in 1..(epoch + 1) : history[k][i] = NaN
        /\ cfg.hasVal =>
              \A k \in ValColumns : \A i \in 1..(epoch + 1) :
                  (history[k][i] = NaN) <=> (ValCol[i] = NaN)

\* two epochs without a 'val' loader, the first with no valid train batch
C5_Witness ==
    /\ pc = "done" /\ ~cfg.hasVal /\ epoch = 1
    /\ history["train_loss"][1] = NaN /\ history["train_loss"][2] # NaN

\* C6: reloading the best weights when no file is at save_path does not
\* raise: the run returns, with the weights and the history it had.
C6_MissingCheckpointNotFatal ==
    [][(pc = "load" /\ ckpt = NoFile) =>
          /\ pc' = "done" /\ error' = "none"
          /\ weights' = weights /\ history' = history]_vars

\* a run returned trained weights with no checkpoint ever written
C6_Witness ==
    pc = "done" /\ ckpt = NoFile /\ weights = 2 /\ cfg.hasVal

\* C7: without a 'train' loader the call raises ValueError as its only
\* step: no epoch starts, no batch is processed, no optimizer step or
\* regularizer call is made, and neither the checkpoint nor the training
\* log is written.
C7_MissingTrainLoaderFatal ==
    [][~cfg.hasTrain =>
          /\ pc = "init" /\ pc' = "raised" /\ error' = "ValueError"
          /\ UNCHANGED <<epoch, phase, batch_idx, batch_count,
                         num_processed_samples, calls, weights,
                         perLayerThresh, history, ckpt, log_written>>]_vars

C7_Witness ==
    /\ pc = "raised" /\ error = "ValueError" /\ ~cfg.hasTrain
    /\ epoch = -1 /\ ~log_written

\* ---------------------------------------------------------------- C11
\* a step of the batch loop that computed a loss
LossStep ==
    pc = "batches" /\ batch_idx' = batch_idx + 1 /\ loss' # 0

\* C11: the loss of every batch of epoch e is computed with criterion A
\* when e < first_stage_epochs, otherwise with criterion B if one was given
\* and with A if not; the criterion in use never goes from B back to A, it
\* goes from A to B only at an epoch >= first_stage_epochs when B was
\* given, and it does not change between two consecutive batches of a phase.
C11_StagedCriterion ==
    [][/\ LossStep =>
             active_criterion' =
                 IF epoch < cfg.first_stage_epochs THEN "A"
                 ELSE IF cfg.criterion_b # "none" THEN "B" ELSE "A"
       /\ active_criterion = "B" => active_criterion' = "B"
       /\ (active_criterion = "A" /\ active_criterion' = "B") =>
             (epoch >= cfg.first_stage_epochs /\ cfg.criterion_b = "B")
       /\ (LossStep /\ loss # 0) => active_criterion' = active_criterion
      ]_vars

\* the second epoch computes a loss with B after the first computed one with A
C11_Witness ==
    /\ cfg.criterion_b = "B" /\ cfg.first_stage_epochs = 1
    /\ epoch = 1 /\ active_criterion = "B" /\ loss # 0
    /\ Len(history["train_loss"]) >= 1 /\ history["train_loss"][1] # NaN

\* ==================================================== dataset construction
\* AnnotationDataset and ImageFolderWrapper (src/src/data_loader.py).  A
\* sample is [path, label]; the path of a sample is the number of its line
\* in the annotation file (of its file in the folder).  A list of class
\* names is a sequence of strings; an optional argument is a record with
\* the flag `given`.
MaxSamples == 3          \* samples in an annotation file or a folder

LabelVals == 0..3
MapKeys   == {1, 2}
MapVals   == {0, 2, 3}
DirNames  == <<"a", "b", "c">>
ClassNameLists == {<<"a", "b">>, <<"a", "b", "c">>}
FinalNameLists == {<<>>, <<"x", "y">>}

\* the mappings of a remapping configuration: label -> label
Mappings == UNION {[K -> MapVals] : K \in SUBSET MapKeys}

\* class_remapping: None, or a dictionary with enabled, mapping and
\* final_class_names (an absent or empty list of names is <<>>)
NoRemapping ==
    [present |-> FALSE, enabled |-> FALSE, mapping |-> <<>>,
     final_class_names |-> <<>>]
Remappings ==
    {NoRemapping} \cup
    [present : {TRUE}, enabled : BOOLEAN, mapping : Mappings,
     final_class_names : FinalNameLists]

LabelLists == UNION {[1..n -> LabelVals] : n \in 0..MaxSamples}

\* the samples behind a list of labels
RawSamples(labels) ==
    [i \in 1..Len(labels) |-> [path |-> i, label |-> labels[i]]]

LabelsOf(samples) == {samples[i].label : i \in DOMAIN samples}

RECURSIVE SortedSeq(_)
SortedSeq(S) ==
    IF S = {} THEN <<>>
    ELSE LET m == CHOOSE x \in S : \A y \in S : x <= y
         IN  <<m>> \o SortedSeq(S \ {m})

\* enumerate(): the 0-based position of x in seq
IndexOf(seq, x) == (CHOOSE i \in 1..Len(seq) : seq[i] = x) - 1

\* mapping.get(label, label)
MapGet(mapping, label) ==
    IF label \in DOMAIN mapping THEN mapping[label] ELSE label

\* the guard of the remap step
RemapEnabledAlways(cr) == cr.present
RemapEnabled(cr) == cr.present /\ cr.enabled

\* AnnotationDataset._apply_class_remapping on [samples, original_labels]
apply_class_remapping(o, mapping) ==
    IF DOMAIN mapping = {} THEN o
    ELSE LET remapped_samples ==
                 [i \in DOMAIN o.samples |->
                     [path  |-> o.samples[i].path,
                      label |-> MapGet(mapping, o.samples[i].label)]]
         IN  [o EXCEPT !.samples = remapped_samples,
                       !.original_labels = LabelsOf(remapped_samples)]

\* ImageFolderWrapper._apply_class_remapping on [samples, targets, classes]
folder_apply_class_remapping(o, cr) ==
    IF DOMAIN cr.mapping = {} THEN o
    ELSE LET remapped_samples ==
                 [i \in DOMAIN o.samples |->
                     [path  |-> o.samples[i].path,
                      label |-> MapGet(cr.mapping, o.samples[i].label)]]
             remapped_targets ==
                 [i \in DOMAIN o.targets |-> MapGet(cr.mapping, o.targets[i])]
             unique_labels ==
                 {remapped_targets[i] : i \in DOMAIN remapped_targets}
         IN  [o EXCEPT
                !.samples = remapped_samples,
                !.targets = remapped_targets,
                !.classes =
                    IF /\ cr.final_class_names # <<>>
                       /\ Cardinality(unique_labels) = Len(cr.final_class_names)
                    THEN cr.final_class_names ELSE @]

\* the class names of an AnnotationDataset built with a class_names list
ClassesOf(class_names, cr) ==
    IF RemapEnabled(cr) /\ cr.final_class_names # <<>>
    THEN cr.final_class_names ELSE class_names

\* label_to_final_index when a class_names list is given
label_to_final_index_ranked(unique, num_expected_classes) ==
    [l \in {unique[i] : i \in DOMAIN unique} |-> IndexOf(unique, l)]
label_to_final_index(unique, num_expected_classes) ==
    IF Len(unique) # num_expected_classes
    THEN [l \in {unique[i] : i \in DOMAIN unique} |-> l]
    ELSE [l \in {unique[i] : i \in DOMAIN unique} |-> IndexOf(unique, l)]

\* the range check of a mapped label
InRange(final_label, num_expected_classes) ==
    0 <= final_label /\ final_label < num_expected_classes

\* the branch of __init__ taken with a class_names list
WithClassNames(o, class_names, cr) ==
    LET unique  == SortedSeq(o.original_labels)
        classes == ClassesOf(class_names, cr)
        n       == Len(classes)
        l2i     == label_to_final_index(unique, n)
        kept    == SelectSeq(o.samples,
                       LAMBDA x : /\ x.label \in DOMAIN l2i
                                  /\ InRange(l2i[x.label], n))
        remapped_samples ==
            [i \in DOMAIN kept |->
                [path |-> kept[i].path, label |-> l2i[kept[i].label]]]
    IN  [o EXCEPT !.samples = remapped_samples,
                  !.targets = [i \in DOMAIN kept |-> l2i[kept[i].label]],
                  !.classes = classes,
                  !.raised  = IF kept = <<>> THEN "ValueError" ELSE "none"]

\* the branch of __init__ taken without one: the class names are inferred,
\* the samples are mapped, and the targets are then looked up from the
\* samples just mapped
Inferred(o) ==
    LET unique == SortedSeq(o.original_labels)
        l2i    == [l \in o.original_labels |-> IndexOf(unique, l)]
        mapped == [i \in DOMAIN o.samples |->
                      [path |-> o.samples[i].path,
                       label |-> l2i[o.samples[i].label]]]
    IN  IF \E i \in DOMAIN mapped : mapped[i].label \notin DOMAIN l2i
        THEN [o EXCEPT !.samples = mapped,
                       !.classes = [i \in DOMAIN unique |-> ToString(unique[i])],
                       !.raised  = "KeyError"]
        ELSE [o EXCEPT !.samples = mapped,
                       !.targets = [i \in DOMAIN mapped |-> l2i[mapped[i].label]],
                       !.classes = [i \in DOMAIN unique |-> ToString(unique[i])]]

\* the arguments of the two constructors
AnnotationArgs ==
    [kind : {"annotation"}, labels : LabelLists,
     class_names : {[given |-> FALSE, names |-> <<>>]} \cup
                   [given : {TRUE}, names : ClassNameLists],
     class_remapping : Remappings]

\* a folder with n class directories: its files in the order of the classes
FolderLabelLists(n) ==
    { l \in LabelLists :
        /\ Len(l) > 0
        /\ \A i \in DOMAIN l : l[i] < n
        /\ \A i \in 1..(Len(l) - 1) : l[i] <= l[i + 1] }
FolderArgs ==
    UNION { [kind : {"folder"}, labels : FolderLabelLists(n),
             class_names : {[given |-> TRUE, names |-> SubSeq(DirNames, 1, n)]},
             class_remapping : Remappings] : n \in 2..3 }

\* the training call of the state machine above has not been made yet
NotCalled ==
    [fn |-> "train_model", hasTrain |-> TRUE, hasVal |-> TRUE,
     num_epochs |-> 1, patience |-> 5, init_best_val_metric |-> 0,
     mixup |-> "none", max_norm_regularizer |-> FALSE,
     tau_normalizer |-> FALSE, tau_norm_frequency |-> 1,
     criterion_b |-> "none", first_stage_epochs |-> 0]

InitData ==
    /\ InitOf({NotCalled}, {NoFile})
    /\ dpc = "new" /\ args \in AnnotationArgs \cup FolderArgs
    /\ dataset = NoDataset /\ heap = NoHeap /\ sampler = NoSampler
    /\ RegIdle /\ InitOpts({DefaultOpts})

\* reading the annotation file (the folder): samples and labels as found
Load ==
    /\ dpc = "new"
    /\ dataset' =
         [kind |-> args.kind,
          samples |-> RawSamples(args.labels),
          original_labels |-> LabelsOf(RawSamples(args.labels)),
          targets |-> IF args.kind = "folder" THEN args.labels ELSE <<>>,
          classes |-> IF args.kind = "folder" THEN args.class_names.names
                      ELSE <<>>,
          raised |-> IF args.kind = "annotation" /\ args.labels = <<>>
                     THEN "ValueError" ELSE "none"]
    /\ dpc' = IF dataset'.raised # "none" THEN "raised" ELSE "loaded"
    /\ UNCHANGED <<args, heap, sampler>>
    /\ UNCHANGED <<tvars, rvars, lvars>>

\* the remap step of either constructor
RemapStep ==
    /\ dpc = "loaded"
    /\ dataset' =
         IF ~RemapEnabled(args.class_remapping) THEN dataset
         ELSE IF args.kind = "annotation"
         THEN apply_class_remapping(dataset, args.class_remapping.mapping)
         ELSE folder_apply_class_remapping(dataset, args.class_remapping)
    /\ dpc' = "remapped"
    /\ UNCHANGED <<args, heap, sampler>>
    /\ UNCHANGED <<tvars, rvars, lvars>>

\* class names and targets, up to the end of the constructor
AssignTargets ==
    /\ dpc = "remapped"
    /\ dataset' =
         IF args.kind = "folder" THEN dataset
         ELSE IF args.class_names.given
         THEN WithClassNames(dataset, args.class_names.names,
                             args.class_remapping)
         ELSE Inferred(dataset)
    /\ dpc' = IF dataset'.raised # "none" THEN "raised" ELSE "built"
    /\ UNCHANGED <<args, heap, sampler>>
    /\ UNCHANGED <<tvars, rvars, lvars>>

NextData ==
    \/ Load
    \/ RemapStep
    \/ AssignTargets

SpecData == InitData /\ [][NextData]_vars

\* ----------------------------------------------------------- C12 .. C16
\* the constructor has run to its end (returned or raised)
Constructed == dpc \in {"built", "raised"}

\* the samples after the remap step, computed from the arguments
PostRemap ==
    [i \in DOMAIN args.labels |->
        [path |-> i,
         label |-> IF args.class_remapping.present
                      /\ args.class_remapping.enabled
                   THEN MapGet(args.class_remapping.mapping, args.labels[i])
                   ELSE args.labels[i]]]

\* the class names in force when a class_names list is given
NamesInForce ==
    IF /\ args.class_remapping.present /\ args.class_remapping.enabled
       /\ args.class_remapping.final_class_names # <<>>
    THEN args.class_remapping.final_class_names
    ELSE args.class_names.names

\* C12: an AnnotationDataset built from a non-empty list of samples,
\* without a class_names list or with one as long as the set of post-remap
\* labels, is constructed without error; every sample is kept, its target
\* is the 0-based rank of its post-remap label among the sorted unique
\* labels, and targets[i] is the target stored in samples[i].
C12_RankTargets ==
    (/\ Constructed /\ args.kind = "annotation" /\ args.labels # <<>>
     /\ \/ ~args.class_names.given
        \/ Len(NamesInForce) = Cardinality(LabelsOf(PostRemap)))
    => /\ dpc = "built"
       /\ Len(dataset.samples) = Len(args.labels)
       /\ Len(dataset.targets) = Len(dataset.samples)
       /\ \A i \in DOMAIN dataset.samples :
            /\ dataset.samples[i].label =
                 IndexOf(SortedSeq(LabelsOf(PostRemap)), PostRemap[i].label)
            /\ dataset.targets[i] = dataset.samples[i].label

\* C13: in a constructed dataset of either class every sample's target and
\* every entry of targets is at least 0 and less than the number of classes.
C13_TargetsInRange ==
    dpc = "built" =>
        /\ \A i \in DOMAIN dataset.samples :
             /\ 0 <= dataset.samples[i].label
             /\ dataset.samples[i].label < Len(dataset.classes)
        /\ \A i \in DOMAIN dataset.targets :
             /\ 0 <= dataset.targets[i]
             /\ dataset.targets[i] < Len(dataset.classes)

\* C14: applying the remap step to a dataset it was already applied to
\* leaves the samples and the label set as they are, and a label that is
\* not a key of the mapping is passed through by the step.
C14_RemapIdempotent ==
    (/\ dpc = "remapped"
     /\ args.class_remapping.present /\ args.class_remapping.enabled)
    => LET again ==
               IF args.kind = "annotation"
               THEN apply_class_remapping(dataset,
                                          args.class_remapping.mapping)
               ELSE folder_apply_class_remapping(dataset,
                                                 args.class_remapping)
       IN  /\ again.samples = dataset.samples
           /\ LabelsOf(again.samples) = LabelsOf(dataset.samples)
           /\ \A i \in DOMAIN args.labels :
                args.labels[i] \notin DOMAIN args.class_remapping.mapping
                => dataset.samples[i].label = args.labels[i]

\* C15: with a class_names list whose length differs from the number of
\* unique post-remap labels, the constructor keeps exactly the samples whose
\* post-remap label l satisfies 0 <= l < num_classes, each with target l,
\* and raises (ValueError) only when no sample is kept.
C15_MismatchFailsSoft ==
    (/\ Constructed /\ args.kind = "annotation" /\ args.labels # <<>>
     /\ args.class_names.given
     /\ Len(NamesInForce) # Cardinality(LabelsOf(PostRemap)))
    => LET keep == SelectSeq(PostRemap,
                       LAMBDA x : 0 <= x.label /\ x.label < Len(NamesInForce))
       IN  IF keep = <<>>
           THEN dpc = "raised" /\ dataset.raised = "ValueError"
           ELSE /\ dpc = "built"
                /\ dataset.samples = keep
                /\ dataset.targets = [i \in DOMAIN keep |-> keep[i].label]

\* a mismatch after which one sample is dropped and another is kept
C15_Witness ==
    /\ dpc = "built" /\ args.kind = "annotation" /\ args.class_names.given
    /\ Len(NamesInForce) # Cardinality(LabelsOf(PostRemap))
    /\ dataset.samples # <<>>
    /\ Len(dataset.samples) < Len(args.labels)

\* C16: with a remapping configuration whose enabled flag is false the
\* remap step of either constructor leaves the samples, the label set, the
\* targets and the class names as they were, and the class names of the
\* constructed dataset are the ones given (the directory names).
C16_DisabledRemapIsNoOp ==
    [][(args.class_remapping.present /\ ~args.class_remapping.enabled)
       => /\ (dpc = "loaded" /\ dpc' = "remapped") => dataset' = dataset
          /\ (dpc' = "built" /\ args.class_names.given)
               => dataset'.classes = args.class_names.names]_vars

\* the step has run with a disabled mapping that names a label of the data
C16_Witness ==
    /\ dpc = "remapped"
    /\ args.class_remapping.present /\ ~args.class_remapping.enabled
    /\ \E i \in DOMAIN args.labels :
         /\ args.labels[i] \in DOMAIN args.class_remapping.mapping
         /\ args.class_remapping.mapping[args.labels[i]] # args.labels[i]
    /\ dataset.samples = RawSamples(args.labels)

\* ========================================================= weighted sampler
\* compute_class_weights_from_dataset, create_weighted_random_sampler,
\* get_effective_sampler_config and CombinedDataset (src/src/data_loader.py).
\* A weight is an exact fraction [n, d] with d > 0; the square root is taken
\* downwards to a multiple of 1/(4d).  A configuration is a function from
\* the keys it has to their values; the heap holds the configurations by
\* object identity (the position in heap.objs).
Rat(n, d) == [n |-> n, d |-> d]
RLe(a, b) == a.n * b.d <= b.n * a.d
REq(a, b) == a.n * b.d = b.n * a.d
RMax(a, b) == IF RLe(a, b) THEN b ELSE a
RMin(a, b) == IF RLe(a, b) THEN a ELSE b
Isqrt(k) == CHOOSE r \in 0..k : r * r <= k /\ (r + 1) * (r + 1) > k
RSqrt(a) == Rat(Isqrt(a.n * a.d * 16), a.d * 4)

\* dict.get(key, default)
Get(config, key, default) ==
    IF key \in DOMAIN config THEN config[key] ELSE default

\* Counter(targets), then a count of 1 for every class without a target
Count(targets, c) == Cardinality({i \in DOMAIN targets : targets[i] = c})
class_counts(targets, num_classes) ==
    [c \in {targets[i] : i \in DOMAIN targets} \cup 0..(num_classes - 1) |->
        IF Count(targets, c) = 0 THEN 1 ELSE Count(targets, c)]

RECURSIVE SumOver(_, _)
SumOver(f, S) ==
    IF S = {} THEN 0
    ELSE LET x == CHOOSE y \in S : TRUE IN f[x] + SumOver(f, S \ {x})

\* the weights before sqrt and clamping, class c at position c + 1
base_class_weights(targets, num_classes, weight_calculation) ==
    LET counts == class_counts(targets, num_classes)
    IN  IF weight_calculation = "inverse"
        THEN LET total_samples == SumOver(counts, DOMAIN counts)
             IN  [c \in 1..num_classes |-> Rat(total_samples, counts[c - 1])]
        ELSE LET n_samples == Len(targets)
             IN  [c \in 1..num_classes |->
                     Rat(n_samples, num_classes * counts[c - 1])]

\* torch.clamp
Clamp(w, min_weight, max_weight) == RMin(RMax(w, min_weight), max_weight)

\* the optional square root, then the clamp
clamp_then_sqrt(w, apply_sqrt, min_weight, max_weight) ==
    LET w1 == [c \in DOMAIN w |-> Clamp(w[c], min_weight, max_weight)]
    IN  IF apply_sqrt THEN [c \in DOMAIN w1 |-> RSqrt(w1[c])] ELSE w1
sqrt_then_clamp(w, apply_sqrt, min_weight, max_weight) ==
    LET w1 == IF apply_sqrt THEN [c \in DOMAIN w |-> RSqrt(w[c])] ELSE w
    IN  [c \in DOMAIN w1 |-> Clamp(w1[c], min_weight, max_weight)]

\* the outcome of compute_class_weights_from_dataset: the exception raised,
\* the weights before sqrt and clamping, and the weights returned
compute_class_weights_from_dataset(ds, num_classes, weight_calculation, apply_sqrt, min_weight, max_weight) ==
    IF ~ds.has_targets
    THEN [raised |-> "AttributeError", raw |-> <<>>, class_weights |-> <<>>]
    ELSE IF weight_calculation \notin {"inverse", "balanced"}
    THEN [raised |-> "ValueError", raw |-> <<>>, class_weights |-> <<>>]
    ELSE LET raw == base_class_weights(ds.targets, num_classes,
                                       weight_calculation)
         IN  [raised |-> "none", raw |-> raw,
              class_weights |-> sqrt_then_clamp(raw, apply_sqrt,
                                                min_weight, max_weight)]

DefaultMinWeight == Rat(1, 10)
DefaultMaxWeight == Rat(10, 1)

\* the outcome of create_weighted_random_sampler
NoneSampler ==
    [state |-> "none", raised |-> "none", raw |-> <<>>,
     class_weights |-> <<>>, weights |-> <<>>, num_samples |-> 0]
create_weighted_random_sampler(ds, num_classes, sampler_config) ==
    IF ~Get(sampler_config, "enabled", FALSE) THEN NoneSampler
    ELSE LET cw == compute_class_weights_from_dataset(ds, num_classes,
                       Get(sampler_config, "weight_calculation", "inverse"),
                       Get(sampler_config, "apply_sqrt", FALSE),
                       Get(sampler_config, "min_weight", DefaultMinWeight),
                       Get(sampler_config, "max_weight", DefaultMaxWeight))
         IN  IF cw.raised # "none"
             THEN [NoneSampler EXCEPT !.state = "raised", !.raised = cw.raised]
             ELSE IF \E i \in DOMAIN ds.targets : ds.targets[i] >= num_classes
             THEN [NoneSampler EXCEPT !.state = "raised",
                                      !.raised = "IndexError"]
             ELSE IF ds.targets = <<>>
             THEN \* sample_weights.min() of an empty tensor
                  [NoneSampler EXCEPT !.state = "raised",
                                      !.raised = "RuntimeError"]
             ELSE [state |-> "created", raised |-> "none", raw |-> cw.raw,
                   class_weights |-> cw.class_weights,
                   weights |-> [i \in DOMAIN ds.targets |->
                                   cw.class_weights[ds.targets[i] + 1]],
                   num_samples |-> ds.len]

\* get_effective_sampler_config on the heap h: the heap and the reference
\* returned.  phase_config = 0 is None.
get_effective_sampler_config_shared(h, main_config, phase_config) ==
    IF phase_config = 0 THEN [objs |-> h, ref |-> main_config]
    ELSE [objs |-> Append(h, h[phase_config] @@ h[main_config]),
          ref |-> Len(h) + 1]
get_effective_sampler_config(h, main_config, phase_config) ==
    IF phase_config = 0
    THEN [objs |-> Append(h, h[main_config]), ref |-> Len(h) + 1]
    ELSE [objs |-> Append(h, h[phase_config] @@ h[main_config]),
          ref |-> Len(h) + 1]

\* CombinedDataset.__init__: the targets of the members whose classes are
\* those of the first; a member of that kind without targets empties them
RECURSIVE all_targets(_, _, _)
all_targets(datasets, classes, i) ==
    IF i > Len(datasets) THEN <<>>
    ELSE IF ~datasets[i].has_classes \/ datasets[i].classes # classes
    THEN all_targets(datasets, classes, i + 1)
    ELSE datasets[i].targets \o all_targets(datasets, classes, i + 1)

RECURSIVE SumLen(_, _)
SumLen(datasets, i) ==
    IF i > Len(datasets) THEN 0 ELSE datasets[i].len + SumLen(datasets, i + 1)

CombinedDataset(datasets) ==
    IF ~datasets[1].has_classes
    THEN [kind |-> "combined", raised |-> "AttributeError",
          has_targets |-> FALSE, targets |-> <<>>, classes |-> <<>>,
          len |-> 0]
    ELSE LET classes == datasets[1].classes
             broke == \E i \in DOMAIN datasets :
                         /\ datasets[i].has_classes
                         /\ datasets[i].classes = classes
                         /\ ~datasets[i].has_targets
         IN  [kind |-> "combined", raised |-> "none", has_targets |-> TRUE,
              targets |-> IF broke THEN <<>>
                          ELSE all_targets(datasets, classes, 1),
              classes |-> classes, len |-> SumLen(datasets, 1)]

\* ------------------------------------------------------------- arguments
TargetVals == 0..2
TargetLists == UNION {[1..n -> TargetVals] : n \in 1..MaxSamples}
NumClassesVals == 2..3

\* a dataset with targets and classes, as the constructors above build it
Member(targets, classes) ==
    [kind |-> "plain", raised |-> "none", has_targets |-> TRUE,
     targets |-> targets, has_classes |-> TRUE, classes |-> classes,
     len |-> Len(targets)]

\* the second member of a combination: one that fits, one with the classes
\* of another data set, one without targets, one without classes
SecondMembers(classes) ==
    { Member(<<0>>, classes), Member(<<1, 0>>, classes),
      Member(<<0>>, <<"x", "y">>),
      [Member(<<>>, classes) EXCEPT !.has_targets = FALSE, !.len = 1],
      [Member(<<1>>, <<>>) EXCEPT !.has_classes = FALSE] }

EnabledOpts == {<<>>, "enabled" :> TRUE, "enabled" :> FALSE}
MethodOpts  == {<<>>, "weight_calculation" :> "balanced",
                "weight_calculation" :> "custom"}
SqrtOpts    == {<<>>, "apply_sqrt" :> TRUE}
ClampOpts   == {<<>>, ("min_weight" :> Rat(2, 1)) @@ ("max_weight" :> Rat(3, 1))}
MainConfigs ==
    {e @@ m @@ q @@ w : e \in EnabledOpts, m \in MethodOpts,
                        q \in SqrtOpts, w \in ClampOpts}
PhaseConfigs ==
    { ("enabled" :> TRUE) @@ ("weight_calculation" :> "inverse"),
      ("enabled" :> FALSE) @@ ("replacement" :> FALSE) }

SamplerArgs ==
    UNION { [kind : {"sampler"}, num_classes : {k},
             datasets :
                 { <<Member(t, SubSeq(DirNames, 1, k))>> : t \in TargetLists }
                 \cup
                 { <<Member(t, SubSeq(DirNames, 1, k)), m2>> :
                     t \in TargetLists,
                     m2 \in SecondMembers(SubSeq(DirNames, 1, k)) },
             main_config : MainConfigs,
             phase_config : {[given |-> FALSE, value |-> <<>>]} \cup
                            [given : {TRUE}, value : PhaseConfigs]]
            : k \in NumClassesVals }

\* the heap at the start: the main configuration, then the phase one
InitSampler ==
    /\ InitOf({NotCalled}, {NoFile})
    /\ dpc = "new" /\ args \in SamplerArgs
    /\ dataset = NoDataset /\ sampler = NoSampler
    /\ RegIdle /\ InitOpts({DefaultOpts})
    /\ heap = [objs |-> IF args.phase_config.given
                        THEN <<args.main_config, args.phase_config.value>>
                        ELSE <<args.main_config>>,
               main |-> 1,
               phase |-> IF args.phase_config.given THEN 2 ELSE 0,
               effective |-> 0]

\* the training dataset: the one given, or the combination of the two
CombineDatasets ==
    /\ dpc = "new" /\ args.kind = "sampler"
    /\ dataset' = IF Len(args.datasets) = 1 THEN args.datasets[1]
                  ELSE CombinedDataset(args.datasets)
    /\ dpc' = IF dataset'.raised # "none" THEN "raised" ELSE "dataset"
    /\ UNCHANGED <<args, heap, sampler>>
    /\ UNCHANGED <<tvars, rvars, lvars>>

\* the call of get_effective_sampler_config(main_config, phase_config)
EffectiveConfig ==
    /\ dpc = "dataset"
    /\ LET r == get_effective_sampler_config(heap.objs, heap.main, heap.phase)
       IN  heap' = [heap EXCEPT !.objs = r.objs, !.effective = r.ref]
    /\ dpc' = "config"
    /\ UNCHANGED <<args, dataset, sampler>>
    /\ UNCHANGED <<tvars, rvars, lvars>>

\* the call of create_weighted_random_sampler with the effective config
CreateSampler ==
    /\ dpc = "config"
    /\ sampler' = create_weighted_random_sampler(dataset, args.num_classes,
                                                 heap.objs[heap.effective])
    /\ dpc' = IF sampler'.state = "raised" THEN "raised" ELSE "sampler"
    /\ UNCHANGED <<args, dataset, heap>>
    /\ UNCHANGED <<tvars, rvars, lvars>>

NextSampler ==
    \/ CombineDatasets
    \/ EffectiveConfig
    \/ CreateSampler

SpecSampler == InitSampler /\ [][NextSampler]_vars

\* ----------------------------------------------------------- C17 .. C20
\* the configuration the sampler was created with
EffectiveCfg == heap.objs[heap.effective]
Method == Get(EffectiveCfg, "weight_calculation", "inverse")
MinWeight == Get(EffectiveCfg, "min_weight", DefaultMinWeight)
MaxWeight == Get(EffectiveCfg, "max_weight", DefaultMaxWeight)

\* the count of class c in the data, 1 when the class has no target
CountOf(c) ==
    IF Count(dataset.targets, c) = 0 THEN 1 ELSE Count(dataset.targets, c)

\* C17: before sqrt and clamping the weight of class c is
\* total_samples / count[c] for inverse and
\* total_samples / (num_classes * count[c]) for balanced, where
\* total_samples is the number of targets of the dataset for both methods
\* and count[c] is 1 for a class without a target; so the inverse weight is
\* num_classes times the balanced weight for every class.
C17_SameTotalForBothMethods ==
    (dpc = "sampler" /\ sampler.state = "created")
    => \A c \in 0..(args.num_classes - 1) :
         /\ Method = "inverse" =>
              REq(sampler.raw[c + 1], Rat(Len(dataset.targets), CountOf(c)))
         /\ Method = "balanced" =>
              REq(sampler.raw[c + 1],
                  Rat(Len(dataset.targets), args.num_classes * CountOf(c)))
         /\ LET inv == base_class_weights(dataset.targets, args.num_classes,
                                          "inverse")[c + 1]
                bal == base_class_weights(dataset.targets, args.num_classes,
                                          "balanced")[c + 1]
            IN  REq(inv, Rat(args.num_classes * bal.n, bal.d))

\* C18: every class weight returned lies between min_weight and max_weight
\* (when min_weight <= max_weight), for both methods, with and without
\* the square root.
C18_WeightsWithinClamp ==
    (dpc = "sampler" /\ sampler.state = "created" /\ RLe(MinWeight, MaxWeight))
    => \A c \in DOMAIN sampler.class_weights :
         /\ RLe(MinWeight, sampler.class_weights[c])
         /\ RLe(sampler.class_weights[c], MaxWeight)

\* a weight whose square root is below min_weight was raised to it
C18_Witness ==
    /\ dpc = "sampler" /\ sampler.state = "created"
    /\ Get(EffectiveCfg, "apply_sqrt", FALSE)
    /\ \E c \in DOMAIN sampler.class_weights :
         /\ ~RLe(MinWeight, RSqrt(sampler.raw[c]))
         /\ RLe(MinWeight, sampler.raw[c])
         /\ REq(sampler.class_weights[c], MinWeight)

\* C19: create_weighted_random_sampler returns None exactly when the
\* configuration's enabled flag is false or absent; a sampler it creates
\* has one weight per sample of the dataset (as many as len(dataset), the
\* number of draws), and weight i is the class weight of sample i's target.
C19_OneWeightPerSample ==
    dpc = "sampler"
    => /\ sampler.state = "none" <=> ~Get(EffectiveCfg, "enabled", FALSE)
       /\ sampler.state = "created" =>
            /\ sampler.num_samples = dataset.len
            /\ Len(sampler.weights) = dataset.len
            /\ \A i \in DOMAIN sampler.weights :
                 sampler.weights[i] =
                     sampler.class_weights[dataset.targets[i] + 1]

\* C20: get_effective_sampler_config leaves main_config and phase_config
\* as they were and returns a mapping that is neither of the two objects;
\* without a phase config the result equals main_config, with one it has
\* the keys of both, with the phase value for every key of phase_config and
\* the main value for every other key.
C20_EffectiveConfigIsFreshMerge ==
    heap.effective # 0
    => /\ heap.objs[heap.main] = args.main_config
       /\ heap.phase # 0 => heap.objs[heap.phase] = args.phase_config.value
       /\ heap.effective \notin {heap.main, heap.phase}
       /\ ~args.phase_config.given => EffectiveCfg = args.main_config
       /\ args.phase_config.given =>
            /\ DOMAIN EffectiveCfg =
                   DOMAIN args.main_config \cup DOMAIN args.phase_config.value
            /\ \A key \in DOMAIN EffectiveCfg :
                 EffectiveCfg[key] =
                     IF key \in DOMAIN args.phase_config.value
                     THEN args.phase_config.value[key]
                     ELSE args.main_config[key]

\* a merge in which the phase config overrides one key of the main config
\* and the main config alone has another
C20_Witness ==
    /\ heap.effective # 0 /\ args.phase_config.given
    /\ "enabled" \in DOMAIN args.main_config
    /\ args.main_config["enabled"] # args.phase_config.value["enabled"]
    /\ "apply_sqrt" \in DOMAIN EffectiveCfg
    /\ EffectiveCfg["enabled"] = args.phase_config.value["enabled"]

\* ------------------------------------------------------------------
\* The MaxNorm regularizer on a weight matrix (src/src/regularizers.py).
\* The classifier weight is a matrix with one row per neuron; its entries
\* are exact fractions in lowest terms.  The norm is the one of LpNorm = 1,
\* which is exact on fractions.
\* ------------------------------------------------------------------
MaxCalls == 3

RECURSIVE Gcd(_, _)
Gcd(a, b) == IF b = 0 THEN a ELSE Gcd(b, a % b)

Reduce(a) ==
    LET m == IF a.n < 0 THEN -a.n ELSE a.n
        g == Gcd(m, a.d)
    IN  IF a.n < 0 THEN Rat(-(m \div g), a.d \div g)
        ELSE Rat(m \div g, a.d \div g)

RLt(a, b) == a.n * b.d < b.n * a.d
RAbs(a) == Rat(IF a.n < 0 THEN -a.n ELSE a.n, a.d)
RAdd(a, b) == Reduce(Rat(a.n * b.d + b.n * a.d, a.d * b.d))
RSub(a, b) == Reduce(Rat(a.n * b.d - b.n * a.d, a.d * b.d))
RMul(a, b) == Reduce(Rat(a.n * b.n, a.d * b.d))
\* a / b for b > 0
RDiv(a, b) == Reduce(Rat(a.n * b.d, a.d * b.n))

RECURSIVE RPow(_, _)
RPow(a, k) == IF k = 0 THEN Rat(1, 1) ELSE RMul(a, RPow(a, k - 1))

\* torch.linalg.norm(curparam_vec, ord=1, dim=1) of one row
RECURSIVE Norm(_)
Norm(row) ==
    IF row = <<>> THEN Rat(0, 1)
    ELSE RAdd(RAbs(Head(row)), Norm(Tail(row)))

\* scalingVect[idx] * curparam[idx] on one row
Scale(row, factor) == [j \in DOMAIN row |-> RMul(factor, row[j])]

MinNorm(W) ==
    CHOOSE m \in {Norm(W[i]) : i \in DOMAIN W} :
        \A i \in DOMAIN W : RLe(m, Norm(W[i]))
MaxNorm(W) ==
    CHOOSE m \in {Norm(W[i]) : i \in DOMAIN W} :
        \A i \in DOMAIN W : RLe(Norm(W[i]), m)

\* setPerLayerThresh: the threshold of the one layer, from the norms of
\* its neurons (no tau here)
curLayerThresh(r, W) ==
    RAdd(MinNorm(W), RMul(r.thresh, RSub(MaxNorm(W), MinNorm(W))))

MaxNorm_setPerLayerThresh(r, W) ==
    [r EXCEPT !.perLayerThresh = <<curLayerThresh(r, W)>>]

\* a regularizer that takes a new threshold on every call
ThreshMissingAlways(r) == TRUE

\* PGD computes the thresholds only when it has none
ThreshMissing(r) == Len(r.perLayerThresh) = 0

\* tmp = curLayerThresh / (neuronNorm_curparam[idx])**(self.tau), where
\* neuronNorm_curparam is already norm ** tau
ScalingFactor(r, powered, thr) == RDiv(thr, RPow(powered, r.tau))

MaxNorm_PGD(r, W) ==
    LET r1 == IF ThreshMissing(r) THEN MaxNorm_setPerLayerThresh(r, W)
              ELSE r
        thr == r1.perLayerThresh[1]
    IN  [reg |-> r1,
         layer |-> [i \in DOMAIN W |->
                      LET powered == RPow(Norm(W[i]), r.tau)
                      IN  IF RLt(thr, powered)
                          THEN Scale(W[i], ScalingFactor(r, powered, thr))
                          ELSE W[i]]]

EntryVals == {Rat(0, 1), Rat(1, 2), Rat(-2, 1)}
Rows == [1..2 -> EntryVals]
Layers == [1..2 -> Rows]
TauVals == {1, 2}
ThreshVals == {Rat(0, 1), Rat(1, 4), Rat(1, 1)}

InitReg ==
    /\ InitOf({NotCalled}, {NoFile}) /\ DataIdle /\ InitOpts({DefaultOpts})
    /\ layer \in Layers
    /\ reg \in [thresh : ThreshVals, tau : TauVals, perLayerThresh : {<<>>}]
    /\ rcalls = <<>>

\* max_norm_regularizer.PGD(model) after an optimizer step
RegPGD ==
    /\ reg.tau # 0 /\ Len(rcalls) < MaxCalls
    /\ LET r == MaxNorm_PGD(reg, layer)
       IN  reg' = r.reg /\ layer' = r.layer
    /\ rcalls' = Append(rcalls, "PGD")
    /\ UNCHANGED <<tvars, dvars, lvars>>

\* optimizer.step() gives the layer new weights
RegUpdate ==
    /\ reg.tau # 0 /\ Len(rcalls) < MaxCalls
    /\ layer' \in Layers
    /\ rcalls' = Append(rcalls, "step")
    /\ UNCHANGED <<tvars, dvars, lvars, reg>>

NextReg == RegPGD \/ RegUpdate

SpecReg == InitReg /\ [][NextReg]_vars

IsPGD == rcalls' = Append(rcalls, "PGD")
Exceeds(i) == RLt(reg'.perLayerThresh[1], RPow(Norm(layer[i]), reg.tau))

\* C21: a call of PGD multiplies each neuron whose norm ** tau exceeds the
\* cached threshold by exactly threshold / norm ** tau, leaves every other
\* neuron as it was, and increases the norm of no neuron.
C21_ScalesExceedingNeurons ==
    [][IsPGD =>
         \A i \in DOMAIN layer :
            /\ Exceeds(i) =>
                 layer'[i] =
                     Scale(layer[i],
                           RDiv(reg'.perLayerThresh[1],
                                RPow(Norm(layer[i]), reg.tau)))
            /\ ~Exceeds(i) => layer'[i] = layer[i]
            /\ RLe(Norm(layer'[i]), Norm(layer[i]))]_vars

\* C22: a second call of PGD right after a first, with the threshold as
\* it was, leaves the weights as the first call left them.
C22_PGDIdempotent ==
    [][(/\ rcalls # <<>> /\ rcalls[Len(rcalls)] = "PGD"
        /\ IsPGD /\ reg'.perLayerThresh = reg.perLayerThresh)
       => layer' = layer]_vars

\* C23: the first call of PGD takes the threshold from the weights of that
\* moment, min_norm + thresh * (max_norm - min_norm); no later call of PGD
\* and no weight update changes it.
C23_ThresholdComputedOnce ==
    [][/\ (IsPGD /\ reg.perLayerThresh = <<>>)
          => reg'.perLayerThresh =
                 <<RAdd(MinNorm(layer),
                        RMul(reg.thresh,
                             RSub(MaxNorm(layer), MinNorm(layer))))>>
       /\ (~IsPGD /\ reg.perLayerThresh = <<>>)
          => reg'.perLayerThresh = <<>>
       /\ reg.perLayerThresh # <<>>
          => reg'.perLayerThresh = reg.perLayerThresh]_vars

\* a second PGD after a weight update whose own norms would give another
\* threshold than the cached one
C23_Witness ==
    /\ Len(rcalls) = 3 /\ rcalls[1] = "PGD" /\ rcalls[2] = "step"
    /\ rcalls[3] = "PGD"
    /\ \E W \in Layers :
         /\ curLayerThresh(reg, W) # reg.perLayerThresh[1]
         /\ MaxNorm_PGD(reg, W).layer = layer

\* ------------------------------------------------------------------
\* The training run with its collaborators: the learning-rate scheduler
\* and the caller's train loader.
\* ------------------------------------------------------------------
SchedulerVals == {"none", "ReduceLROnPlateau", "StepLR"}

\* scheduler: both entry points, every kind of scheduler, default patience
ConfigsSched ==
    { c \in Configs : /\ c.hasTrain /\ c.patience = 5 /\ c.mixup = "none"
                      /\ c.init_best_val_metric = 0
                      /\ ~c.max_norm_regularizer /\ ~c.tau_normalizer
                      /\ c.criterion_b = "none" /\ c.first_stage_epochs = 0 }
OptsSched == { [DefaultOpts EXCEPT !.scheduler = x] : x \in SchedulerVals }
InitSched ==
    /\ InitOf(ConfigsSched, {NoFile}) /\ DataIdle /\ RegIdle
    /\ InitOpts(OptsSched)
SpecSched == InitSched /\ [][Next]_vars

\* train_ratio from -0.25 to 1.5 in quarters
RatioVals == {-1, 0, 1, 2, 3, 4, 6}
SamplerVals == {"shuffle", "WeightedRandomSampler"}
\* len(full_train_dataset)
TrainSizes == {1, 2, 3}

\* train subset: every train_ratio, training sets of one to three samples,
\* a caller's loader with and without a weighted sampler; a validation
\* loader in runs of at most one epoch
ConfigsRatio ==
    { c \in ConfigsSched : /\ c.fn = "train_model"
                           /\ c.hasVal => c.num_epochs <= 1 }
OptsRatio ==
    [scheduler : {"none"}, train_ratio : RatioVals,
     num_total_train_samples : TrainSizes, train_sampler : SamplerVals]
InitRatio ==
    /\ InitOf(ConfigsRatio, {NoFile}) /\ DataIdle /\ RegIdle
    /\ InitOpts(OptsRatio)
SpecRatio == InitRatio /\ [][Next]_vars

\* a step that ends a validation phase
ValEnd == pc = "batches" /\ phase = "val" /\ pc' = "epoch_end"

\* the metric the validation phase that just ended recorded (NaN if it had
\* no valid batch)
ValMetric == history'["val_recall_macro"][Len(history'["val_recall_macro"])]

\* C24: with a scheduler, the step that ends a validation phase, with or
\* without a valid batch, steps the scheduler exactly once (a plateau
\* scheduler with the metric of that phase), and no other step of the run
\* steps it.
C24_SchedulerSteppedAtValEnd ==
    [][opts.scheduler # "none" =>
         IF ValEnd
         THEN sched_steps' =
                  Append(sched_steps,
                         [epoch |-> epoch,
                          metric |-> IF opts.scheduler = "ReduceLROnPlateau"
                                     THEN ValMetric ELSE -1])
         ELSE sched_steps' = sched_steps]_vars

\* C25: with a train loader the call returns normally for every
\* num_epochs >= 0, runs at most num_epochs epochs, and early stopping is
\* decided only after the validation phase, at the end of an epoch.
C25_ReturnsNormally ==
    /\ cfg.hasTrain => pc # "raised"
    /\ epoch + 1 <= cfg.num_epochs
    /\ early_stop => pc \in {"finish", "load", "done"}

\* C26: best_val_metric is at least its initial value and never decreases;
\* it and epochs_no_improve change only in the step that ends a validation
\* phase; in that step the checkpoint is written and epochs_no_improve
\* reset to 0 exactly when the metric strictly exceeds the best so far,
\* and otherwise epochs_no_improve grows by exactly 1 and nothing is
\* written.
C26_BestMetricAndCounter ==
    [][/\ best_val_metric' >= best_val_metric
       /\ pc \notin {"init", "raised"} => best_val_metric >= InitBest
       /\ (~ValEnd /\ pc # "init")
          => UNCHANGED <<best_val_metric, epochs_no_improve, ckpt>>
       /\ ValEnd =>
            IF ValMetric > best_val_metric
            THEN /\ best_val_metric' = ValMetric
                 /\ ckpt' = weights /\ epochs_no_improve' = 0
            ELSE /\ epochs_no_improve' = epochs_no_improve + 1
                 /\ UNCHANGED <<best_val_metric, ckpt>>]_vars

Distinct(q) == \A i, j \in DOMAIN q : i # j => q[i] # q[j]

\* C27: with 0 < train_ratio < 1 the train phase of every epoch runs on a
\* loader of the run's own over exactly ceil(N * train_ratio) pairwise
\* distinct indices of the training set, at least 1 and at most N; with any
\* other train_ratio it runs on the caller's loader as it is.
C27_EpochSubset ==
    epoch_train_loader # NoLoader =>
        LET n == opts.num_total_train_samples
            r == opts.train_ratio
            q == epoch_train_loader.indices
        IN  IF 0 < r /\ r < RatioDen
            THEN /\ epoch_train_loader.loader = "epoch"
                 /\ Len(q) * RatioDen >= n * r
                 /\ (Len(q) - 1) * RatioDen < n * r
                 /\ Len(q) >= 1 /\ Len(q) <= n
                 /\ Distinct(q)
                 /\ \A i \in DOMAIN q : q[i] \in 0..(n - 1)
            ELSE /\ epoch_train_loader.loader = "original"
                 /\ epoch_train_loader.sampler = opts.train_sampler

\* the second epoch of a run on half of three samples
C27_Witness ==
    /\ epoch = 1 /\ pc = "batches"
    /\ opts.train_ratio = 2 /\ opts.num_total_train_samples = 3
    /\ epoch_train_loader.loader = "epoch"
    /\ Len(epoch_train_loader.indices) = 2

\* C28: the weighted sampler of the caller's train loader is the sampler of
\* the train phase in every epoch, whatever train_ratio is.
C28_WeightedSamplerKept ==
    (epoch_train_loader # NoLoader
     /\ opts.train_sampler = "WeightedRandomSampler")
    => epoch_train_loader.sampler = "WeightedRandomSampler"

\* C29: an augmenter handed in disabled is disabled in every state of the
\* run and mixes no batch.
C29_DisabledAugmenterStaysOff ==
    cfg.mixup = "off" =>
        /\ ~mixup_enabled
        /\ \A i \in DOMAIN calls : calls[i] # "mixup"

\* C30: the weights the run returns are those of a checkpoint written in
\* this run if an epoch improved on the initial best, and the weights of
\* the last epoch otherwise, whatever file was at save_path at the call.
C30_LoadsOnlyOwnCheckpoint ==
    [][(pc = "load" /\ pc' = "done") =>
         IF best_val_metric > InitBest
         THEN weights' = ckpt
         ELSE weights' = weights]_vars
====
